---- MODULE Spec2Model ----
(***************************************************************************)
(* Model of the NY Pizza Woodstock ordering backend (backend/server.py):   *)
(* the users, orders, pizzas and menu_items collections of the document    *)
(* database and the request handlers that read and write them.             *)
(*                                                                         *)
(* Amounts of money are integers counted in cents.  Ids produced by        *)
(* uuid.uuid4() are positive integers that are fresh in their collection;  *)
(* an id written by a client is either a copy of an id the client has      *)
(* seen or a string of ClientIds.  Instants are whole minutes.             *)
(*                                                                         *)
(* No route updates or deletes a document of the catalog, so db.pizzas and *)
(* db.menu_items are the documents seeded at startup followed by the       *)
(* documents the admin routes inserted: the variables pizzas and           *)
(* menu_items hold the inserted ones, db_pizzas and db_menu_items are the  *)
(* collections.                                                            *)
(*                                                                         *)
(* The variable miles is the distance calculate_delivery_fee works with:   *)
(* the source assigns it the literal 3, and so does Init; SpecQuote draws  *)
(* it to check the fee schedule at every distance.  payment_service and    *)
(* email_service are the instances of backend/payment_service.py and       *)
(* backend/email_service.py (their _enabled flags); calls is the log of    *)
(* the calls of their methods.  updates is the bag of the                  *)
(* update_order_status requests that have passed their checks and have not *)
(* been answered yet.                                                      *)
(***************************************************************************)
EXTENDS Integers, Sequences, FiniteSets, Bags, TLC

VARIABLES users, regs, orders, pizzas, menu_items, now, resp,
          miles, payment_service, email_service, calls, updates

vars == <<users, regs, orders, pizzas, menu_items, now, resp,
          miles, payment_service, email_service, calls, updates>>

\* the collections of the database, the requests in flight, the clock and the
\* last response
db == <<users, regs, orders, pizzas, menu_items, now, resp, updates>>

\* the instances of payment_service.py and email_service.py and the log of the
\* calls of their methods
services == <<payment_service, email_service, calls>>

(***************************************************************************)
(* Bounds of the model.                                                    *)
(***************************************************************************)
\* orders persisted
MaxOrders == 1
\* user documents plus registrations in flight
MaxUsers == 2
\* documents the admin adds to the catalog
MaxCatalogAdds == 1
\* the greatest distance, in miles, the fee schedule is checked at
MaxMiles == 12
\* calls of the methods of the payment and email services
MaxCalls == 1
\* update_order_status requests in flight
MaxUpdates == 2

(***************************************************************************)
(* Values of the request bodies.                                           *)
(***************************************************************************)
AdminEmail == "admin@nypizzawoodstock.com"
RegisterEmails == {"ann@example.com"}
\* a bearer token is the email it was issued for; BadToken decodes to nothing
BadToken == "bad-token"
Tokens == {AdminEmail} \cup RegisterEmails \cup {BadToken}

\* Python's None in an integer field (an id, an instant)
None == -1000
\* delivery_address: Optional[Address] = None
NoAddress == "None"
\* a request body without a status field
NoStatus == "omitted"
\* an id string made up by a client, and the user_id "placeholder" of the tests
ClientIds == {-1}
\* an address in Woodstock and one far outside any delivery area
FarAddress == "1 W 4th Ave, Anchorage, AK"
Addresses == {"12 Main St, Woodstock, GA", FarAddress}

\* a list of statuses that lets "shipped" through
valid_statuses_Shipped ==
    {"pending", "confirmed", "preparing", "ready", "delivered", "cancelled", "shipped"}

valid_statuses == {"pending", "confirmed", "preparing", "ready", "delivered", "cancelled"}

(***************************************************************************)
(* Helpers over collections (sequences of documents).                      *)
(***************************************************************************)
Ids(coll) == {coll[i].id : i \in 1..Len(coll)}

SetMax(S) == CHOOSE m \in S : \A x \in S : x <= m

\* uuid.uuid4(): an id no document of the collection has
uuid4(coll) == SetMax(Ids(coll) \cup {0}) + 1

\* find_one and update_one act on the first document that matches the filter:
\* the least of the matching positions, or 0 when none matches
FirstIndex(matching) ==
    IF matching = {} THEN 0 ELSE CHOOSE i \in matching : \A j \in matching : i <= j

(***************************************************************************)
(* get_current_user: the user document the bearer token resolves to.       *)
(***************************************************************************)
UserIndex(token) == FirstIndex({i \in 1..Len(users) : users[i].email = token})

Authenticated(token) == token # BadToken /\ UserIndex(token) # 0

current_user(token) == users[UserIndex(token)]


(***************************************************************************)
(* Utility functions.                                                      *)
(***************************************************************************)
base_fee == 400
max_distance == 9
free_distance == 5
per_mile_fee == 200
\* "Assume 3 miles for demo"
distance == 3

\* a schedule that stops short of max_distance
DeliveryFeeAt_StrictMax(d) ==
    IF d <= free_distance
    THEN [fee |-> base_fee, can_deliver |-> TRUE, distance |-> d]
    ELSE IF d < max_distance
         THEN [fee |-> base_fee + (d - free_distance) * per_mile_fee,
               can_deliver |-> TRUE, distance |-> d]
         ELSE [fee |-> 0, can_deliver |-> FALSE, distance |-> d]

\* the fee schedule of calculate_delivery_fee at a distance of d miles
DeliveryFeeAt(d) ==
    IF d <= free_distance
    THEN [fee |-> base_fee, can_deliver |-> TRUE, distance |-> d]
    ELSE IF d <= max_distance
         THEN [fee |-> base_fee + (d - free_distance) * per_mile_fee,
               can_deliver |-> TRUE, distance |-> d]
         ELSE [fee |-> 0, can_deliver |-> FALSE, distance |-> d]

\* a fee that depends on the address: FarAddress lies beyond max_distance
calculate_delivery_fee_ByAddress(delivery_address) ==
    DeliveryFeeAt(IF delivery_address = FarAddress THEN max_distance + 1 ELSE miles)

\* the variable miles is the local variable distance of calculate_delivery_fee;
\* the function does not read its argument
calculate_delivery_fee(delivery_address) == DeliveryFeeAt(miles)

\* tax_rate = 0.085, in thousandths
tax_rate == 85

\* Subtotals (cents, below 3000) at which subtotal * 0.085 is half a cent in
\* exact arithmetic and the IEEE double product lies above the half: round()
\* rounds these up; at 1300 and 2500 the product lies below and is rounded down.
FloatTieUp == {100, 300, 500, 700, 900, 1100, 1500, 1700, 1900, 2100, 2300, 2700, 2900}

\* round(subtotal * tax_rate, 2), in cents
TaxOf(subtotal) ==
    LET n == subtotal * tax_rate
        q == n \div 1000
        r == n % 1000
    IN  IF r > 500 \/ (r = 500 /\ subtotal \in FloatTieUp) THEN q + 1 ELSE q

delivery_minutes == 45
pickup_minutes == 25


(***************************************************************************)
(* Request bodies.  A CartItem is its price and quantity; the fields that  *)
(* no handler reads (names, sizes, toppings, payment_method, instructions) *)
(* are left out.                                                           *)
(***************************************************************************)
Line(price, quantity) == [price |-> price, quantity |-> quantity]

Carts ==
    { <<>>,
      <<Line(1395, 1)>>,
      <<Line(1395, 1), Line(250, 2)>>,
      <<Line(-100, 1)>>,
      <<Line(1395, 0)>> }

OrderTypes == {"delivery", "pickup", "dine_in"}

\* the tax and the total a client sends: those of the test, and zeros
ClientAmounts == {[tax |-> 119, total |-> 1514], [tax |-> 0, total |-> 0]}

\* bodies of POST /api/orders that differ in every field the pricing reads
WideBodies ==
    { [id |-> None, user_id |-> u, items |-> c,
       delivery_address |-> a, order_type |-> ty,
       subtotal |-> sub, delivery_fee |-> fee,
       tax |-> amt.tax, total |-> amt.total,
       status |-> st, created_at |-> None] :
         u \in ClientIds, c \in Carts, a \in {NoAddress} \cup Addresses,
         ty \in OrderTypes, sub \in {1300, 1395}, fee \in {None, 500},
         amt \in ClientAmounts, st \in {NoStatus, "delivered"} }

\* bodies of POST /api/orders of one pickup cart, as the test sends it
BasicBodies ==
    [id : {None}, user_id : ClientIds \cup Ids(users),
     items : {<<Line(1395, 1)>>},
     delivery_address : {NoAddress}, order_type : {"pickup"},
     subtotal : {1395}, delivery_fee : {None},
     tax : {119}, total : {1514},
     status : {NoStatus}, created_at : {None}]

\* bodies of one cart, for pickup and for delivery, with and without an address
QuoteBodies ==
    [id : {None}, user_id : ClientIds,
     items : {<<Line(1395, 1)>>},
     delivery_address : {NoAddress} \cup Addresses, order_type : {"delivery", "pickup"},
     subtotal : {1395}, delivery_fee : {None},
     tax : {119}, total : {1514},
     status : {NoStatus}, created_at : {None}]

\* bodies of one pickup cart that leave the id out, make one up, or copy the id
\* of an order the client has seen
IdBodies ==
    [id : {None} \cup ClientIds \cup Ids(orders), user_id : ClientIds,
     items : {<<Line(1395, 1)>>},
     delivery_address : {NoAddress}, order_type : {"pickup"},
     subtotal : {1395}, delivery_fee : {None},
     tax : {119}, total : {1514},
     status : {NoStatus}, created_at : {None}]

\* Order(**body): pydantic fills the fields the body leaves out
ParseOrder(body) ==
    [id |-> IF body.id = None THEN uuid4(orders) ELSE body.id,
     user_id |-> body.user_id,
     items |-> body.items,
     delivery_address |-> body.delivery_address,
     order_type |-> body.order_type,
     subtotal |-> body.subtotal,
     delivery_fee |-> IF body.delivery_fee = None THEN 0 ELSE body.delivery_fee,
     tax |-> body.tax,
     total |-> body.total,
     status |-> IF body.status = NoStatus THEN "pending" ELSE body.status,
     created_at |-> IF body.created_at = None THEN now ELSE body.created_at,
     estimated_delivery |-> None]

(***************************************************************************)
(* The response of the last request.                                       *)
(***************************************************************************)
\* the route, the HTTP status code, and the order id of the path (None when the
\* route has none)
Reply(op, code, order_id) == [op |-> op, code |-> code, order_id |-> order_id]

Response(op, code) == Reply(op, code, None)

SeedPizzas == 18
SeedMenuItems == 111

\* the documents of initialize_sample_data, all of them available
SeedDocs(n) == [i \in 1..n |-> [id |-> i, is_available |-> TRUE]]

db_pizzas == SeedDocs(SeedPizzas) \o pizzas

db_menu_items == SeedDocs(SeedMenuItems) \o menu_items

\* startup_event on an empty database: initialize_sample_data has run
InitDb ==
    /\ users = << [id |-> 1, email |-> AdminEmail, is_admin |-> TRUE] >>
    /\ regs = [e \in RegisterEmails |-> 0]
    /\ orders = << >>
    /\ pizzas = << >>
    /\ menu_items = << >>
    /\ now = 0
    /\ resp = Response("startup", 200)
    /\ updates = EmptyBag

\* PaymentService() and EmailService() in an environment without keys: every
\* credential is its PLACEHOLDER default
PlaceholderPayment ==
    [stripe_enabled |-> FALSE, paypal_enabled |-> FALSE, square_enabled |-> FALSE]

PlaceholderEmail == [email_enabled |-> FALSE]

Init ==
    /\ InitDb
    /\ miles = distance
    /\ payment_service = PlaceholderPayment
    /\ email_service = PlaceholderEmail
    /\ calls = << >>

(***************************************************************************)
(* POST /api/orders                                                        *)
(***************************************************************************)
\* a total that leaves the delivery fee out
OrderTotal_NoFee(o) == o.subtotal + o.tax

\* order_data.total = order_data.subtotal + order_data.delivery_fee + order_data.tax
OrderTotal(o) == o.subtotal + o.delivery_fee + o.tax

\* create_order without its check of can_deliver
PlaceOrder_IgnoreEligibility(order_data, user) ==
    LET o1 == [order_data EXCEPT !.user_id = user.id]
        deliver == o1.order_type = "delivery" /\ o1.delivery_address # NoAddress
        quote == calculate_delivery_fee(o1.delivery_address)
        o2 == IF deliver THEN [o1 EXCEPT !.delivery_fee = quote.fee] ELSE o1
        o3 == [o2 EXCEPT !.tax = TaxOf(o2.subtotal)]
        o4 == [o3 EXCEPT !.total = OrderTotal(o3)]
        o5 == [o4 EXCEPT !.estimated_delivery =
                   IF o4.order_type = "delivery"
                   THEN now + delivery_minutes
                   ELSE now + pickup_minutes]
    IN  [code |-> 200, order |-> o5]

\* create_order that keeps the user_id of the request body
PlaceOrder_KeepUserId(order_data, user) ==
    LET o1 == order_data
        deliver == o1.order_type = "delivery" /\ o1.delivery_address # NoAddress
        quote == calculate_delivery_fee(o1.delivery_address)
        o2 == IF deliver THEN [o1 EXCEPT !.delivery_fee = quote.fee] ELSE o1
        o3 == [o2 EXCEPT !.tax = TaxOf(o2.subtotal)]
        o4 == [o3 EXCEPT !.total = OrderTotal(o3)]
        o5 == [o4 EXCEPT !.estimated_delivery =
                   IF o4.order_type = "delivery"
                   THEN now + delivery_minutes
                   ELSE now + pickup_minutes]
    IN  IF deliver /\ ~quote.can_deliver
        THEN [code |-> 400, order |-> o1]
        ELSE [code |-> 200, order |-> o5]

\* the order create_order inserts for a parsed body, or its rejection
PlaceOrder(order_data, user) ==
    LET o1 == [order_data EXCEPT !.user_id = user.id]
        deliver == o1.order_type = "delivery" /\ o1.delivery_address # NoAddress
        quote == calculate_delivery_fee(o1.delivery_address)
        o2 == IF deliver THEN [o1 EXCEPT !.delivery_fee = quote.fee] ELSE o1
        o3 == [o2 EXCEPT !.tax = TaxOf(o2.subtotal)]
        o4 == [o3 EXCEPT !.total = OrderTotal(o3)]
        o5 == [o4 EXCEPT !.estimated_delivery =
                   IF o4.order_type = "delivery"
                   THEN now + delivery_minutes
                   ELSE now + pickup_minutes]
    IN  IF deliver /\ ~quote.can_deliver
        THEN [code |-> 400, order |-> o1]
        ELSE [code |-> 200, order |-> o5]

create_order(token, body) ==
    /\ IF ~Authenticated(token)
       THEN /\ resp' = Response("create_order", 401)
            /\ UNCHANGED orders
       ELSE LET r == PlaceOrder(ParseOrder(body), current_user(token))
            IN  IF r.code = 200
                THEN /\ orders' = Append(orders, r.order)
                     /\ resp' = Response("create_order", 200)
                ELSE /\ resp' = Response("create_order", r.code)
                     /\ UNCHANGED orders
    /\ UNCHANGED <<users, regs, pizzas, menu_items, now, updates, miles, services>>

(***************************************************************************)
(* Admin routes.                                                           *)
(***************************************************************************)
\* an update whose filter matches the first order whatever its id
update_one_NoFilter(order_id, status) ==
    LET i == IF Len(orders) > 0 THEN 1 ELSE 0
    IN  [modified_count |-> IF i # 0 /\ orders[i].status # status THEN 1 ELSE 0,
         docs |-> IF i # 0 THEN [orders EXCEPT ![i].status = status] ELSE orders]

\* an update that also resets the estimate of the order
update_one_ClearsEstimate(order_id, status) ==
    LET i == FirstIndex({k \in 1..Len(orders) : orders[k].id = order_id})
    IN  [modified_count |-> IF i # 0 /\ orders[i].status # status THEN 1 ELSE 0,
         docs |-> IF i # 0
                  THEN [orders EXCEPT ![i].status = status,
                                      ![i].estimated_delivery = None]
                  ELSE orders]

\* an update that only a pending order takes: the first write wins
update_one_IfPending(order_id, status) ==
    LET i == FirstIndex({k \in 1..Len(orders) :
                            orders[k].id = order_id /\ orders[k].status = "pending"})
    IN  [modified_count |-> IF i # 0 /\ orders[i].status # status THEN 1 ELSE 0,
         docs |-> IF i # 0 THEN [orders EXCEPT ![i].status = status] ELSE orders]

\* db.orders.update_one({"id": order_id}, {"$set": {"status": status}})
update_one(order_id, status) ==
    LET i == FirstIndex({k \in 1..Len(orders) : orders[k].id = order_id})
    IN  [modified_count |-> IF i # 0 /\ orders[i].status # status THEN 1 ELSE 0,
         docs |-> IF i # 0 THEN [orders EXCEPT ![i].status = status] ELSE orders]

update_order_status(token, order_id, status) ==
    /\ IF ~Authenticated(token)
       THEN /\ resp' = Reply("update_order_status", 401, order_id)
            /\ UNCHANGED orders
       ELSE IF ~current_user(token).is_admin
       THEN /\ resp' = Reply("update_order_status", 403, order_id)
            /\ UNCHANGED orders
       ELSE IF status \notin valid_statuses
       THEN /\ resp' = Reply("update_order_status", 400, order_id)
            /\ UNCHANGED orders
       ELSE LET result == update_one(order_id, status)
            IN  /\ orders' = result.docs
                /\ resp' = Reply("update_order_status",
                                 IF result.modified_count = 0 THEN 404 ELSE 200,
                                 order_id)
    /\ UNCHANGED <<users, regs, pizzas, menu_items, now, updates, miles, services>>

\* The route awaits twice: get_current_user awaits the lookup of the user, then
\* the checks run and the route awaits update_one, then the response is built.
\* Requests of several clients interleave at the awaits.  A request in flight is
\* its arguments and the modified_count of its update_one, None until it ran.
Request(order_id, status, modified_count) ==
    [order_id |-> order_id, status |-> status, modified_count |-> modified_count]

Awaiting(req) == BagIn(req, updates) /\ req.modified_count = None

Written(req) == BagIn(req, updates) /\ req.modified_count # None

\* lines 315 to 321: the checks, up to the call of update_one
update_begin(token, order_id, status) ==
    /\ IF ~Authenticated(token)
       THEN /\ resp' = Reply("update_order_status", 401, order_id)
            /\ UNCHANGED updates
       ELSE IF ~current_user(token).is_admin
       THEN /\ resp' = Reply("update_order_status", 403, order_id)
            /\ UNCHANGED updates
       ELSE IF status \notin valid_statuses
       THEN /\ resp' = Reply("update_order_status", 400, order_id)
            /\ UNCHANGED updates
       ELSE /\ updates' = updates (+) SetToBag({Request(order_id, status, None)})
            /\ UNCHANGED resp
    /\ UNCHANGED <<users, regs, orders, pizzas, menu_items, now, miles, services>>

\* lines 323 to 326: the database runs the update_one of a request
update_write(req) ==
    /\ Awaiting(req)
    /\ LET result == update_one(req.order_id, req.status)
       IN  /\ orders' = result.docs
           /\ updates' = (updates (-) SetToBag({req}))
                             (+) SetToBag({[req EXCEPT !.modified_count =
                                                          result.modified_count]})
    /\ UNCHANGED <<users, regs, pizzas, menu_items, now, resp, miles, services>>

\* lines 328 to 331: the route answers with the result of its update_one
update_respond(req) ==
    /\ Written(req)
    /\ resp' = Reply("update_order_status",
                     IF req.modified_count = 0 THEN 404 ELSE 200,
                     req.order_id)
    /\ updates' = updates (-) SetToBag({req})
    /\ UNCHANGED <<users, regs, orders, pizzas, menu_items, now, miles, services>>

\* The documents are returned with the database's _id (an ObjectId) in them:
\* whether the framework can serialize one is outside this source, so a listing
\* that is not empty answers 200 or 500.
ListingCodes == IF Len(orders) = 0 THEN {200} ELSE {200, 500}

get_all_orders(token) ==
    /\ IF ~Authenticated(token)
       THEN resp' = Response("get_all_orders", 401)
       ELSE IF ~current_user(token).is_admin
       THEN resp' = Response("get_all_orders", 403)
       ELSE \E code \in ListingCodes : resp' = Response("get_all_orders", code)
    /\ UNCHANGED <<users, regs, orders, pizzas, menu_items, now, updates, miles, services>>

CatalogFull == Len(pizzas) + Len(menu_items) >= MaxCatalogAdds

\* Pizza(**body) and MenuItem(**body): the id and the availability flag
CatalogBodies == [id : {None}, is_available : BOOLEAN]

ParseCatalog(body, coll) ==
    [id |-> IF body.id = None THEN uuid4(coll) ELSE body.id,
     is_available |-> body.is_available]

create_pizza(token, pizza) ==
    /\ IF ~Authenticated(token)
       THEN /\ resp' = Response("create_pizza", 401)
            /\ UNCHANGED pizzas
       ELSE IF ~current_user(token).is_admin
       THEN /\ resp' = Response("create_pizza", 403)
            /\ UNCHANGED pizzas
       ELSE /\ ~CatalogFull
            /\ pizzas' = Append(pizzas, ParseCatalog(pizza, db_pizzas))
            /\ resp' = Response("create_pizza", 200)
    /\ UNCHANGED <<users, regs, orders, menu_items, now, updates, miles, services>>

\* the route without its is_admin check
create_menu_item_NoAdminCheck(token, item) ==
    /\ IF ~Authenticated(token)
       THEN /\ resp' = Response("create_menu_item", 401)
            /\ UNCHANGED menu_items
       ELSE /\ ~CatalogFull
            /\ menu_items' = Append(menu_items, ParseCatalog(item, db_menu_items))
            /\ resp' = Response("create_menu_item", 200)
    /\ UNCHANGED <<users, regs, orders, pizzas, now, updates, miles, services>>

create_menu_item(token, item) ==
    /\ IF ~Authenticated(token)
       THEN /\ resp' = Response("create_menu_item", 401)
            /\ UNCHANGED menu_items
       ELSE IF ~current_user(token).is_admin
       THEN /\ resp' = Response("create_menu_item", 403)
            /\ UNCHANGED menu_items
       ELSE /\ ~CatalogFull
            /\ menu_items' = Append(menu_items, ParseCatalog(item, db_menu_items))
            /\ resp' = Response("create_menu_item", 200)
    /\ UNCHANGED <<users, regs, orders, pizzas, now, updates, miles, services>>

(***************************************************************************)
(* GET /api/menu/pizzas and GET /api/menu/items                            *)
(***************************************************************************)
\* a response that carries documents
Listing(op, code, body) == [op |-> op, code |-> code, order_id |-> None, body |-> body]

IsAvailable(doc) == doc.is_available

\* cursor.to_list(length): the first length documents of the cursor
to_list(cursor, length) ==
    SubSeq(cursor, 1, IF Len(cursor) < length THEN Len(cursor) ELSE length)

\* pizzas = await db.pizzas.find({"is_available": True}).to_list(100)
get_pizzas ==
    /\ resp' = Listing("get_pizzas", 200, to_list(SelectSeq(db_pizzas, IsAvailable), 100))
    /\ UNCHANGED <<users, regs, orders, pizzas, menu_items, now, updates, miles, services>>

\* items = await db.menu_items.find({"is_available": True}).to_list(100)
get_menu_items ==
    /\ resp' = Listing("get_menu_items", 200,
                       to_list(SelectSeq(db_menu_items, IsAvailable), 100))
    /\ UNCHANGED <<users, regs, orders, pizzas, menu_items, now, updates, miles, services>>

(***************************************************************************)
(* GET /api/orders/my-orders and GET /api/orders/{order_id}                *)
(***************************************************************************)
\* cursor.sort("created_at", -1): the latest first, documents of the same instant
\* in the order of the collection
RECURSIVE sort_created_at(_)
sort_created_at(cursor) ==
    IF cursor = << >> THEN << >>
    ELSE LET latest == {k \in 1..Len(cursor) :
                           \A j \in 1..Len(cursor) :
                               cursor[j].created_at <= cursor[k].created_at}
             k == FirstIndex(latest)
         IN  <<cursor[k]>>
                 \o sort_created_at(SubSeq(cursor, 1, k - 1)
                                        \o SubSeq(cursor, k + 1, Len(cursor)))

\* find({"user_id": user_id}) over a collection
find_user_id(coll, user_id) ==
    LET Owned(doc) == doc.user_id = user_id IN SelectSeq(coll, Owned)

\* a lookup of an order by its id alone
find_one_NoOwnerFilter(coll, order_id, user_id) ==
    FirstIndex({k \in 1..Len(coll) : coll[k].id = order_id})

\* find_one({"id": order_id, "user_id": user_id}): the position of the first
\* document that matches, or 0
find_one(coll, order_id, user_id) ==
    FirstIndex({k \in 1..Len(coll) : coll[k].id = order_id /\ coll[k].user_id = user_id})

\* the documents GET /api/orders/my-orders returns to a user over a collection
user_orders(coll, user_id) == to_list(sort_created_at(find_user_id(coll, user_id)), 50)

get_user_orders(token) ==
    /\ IF ~Authenticated(token)
       THEN resp' = Response("get_user_orders", 401)
       ELSE resp' = Listing("get_user_orders", 200,
                            user_orders(orders, current_user(token).id))
    /\ UNCHANGED <<users, regs, orders, pizzas, menu_items, now, updates, miles, services>>

\* the document is returned with the database's _id in it: 200 or 500, as for
\* get_all_orders
get_order(token, order_id) ==
    /\ IF ~Authenticated(token)
       THEN resp' = Reply("get_order", 401, order_id)
       ELSE LET k == find_one(orders, order_id, current_user(token).id)
            IN  IF k = 0
                THEN resp' = Reply("get_order", 404, order_id)
                ELSE \E code \in {200, 500} :
                         resp' = [Listing("get_order", code,
                                          IF code = 200 THEN <<orders[k]>> ELSE << >>)
                                     EXCEPT !.order_id = order_id]
    /\ UNCHANGED <<users, regs, orders, pizzas, menu_items, now, updates, miles, services>>

(***************************************************************************)
(* POST /api/auth/register: the lookup and the insert are two awaits.      *)
(***************************************************************************)
InFlight == LET Sum[S \in SUBSET RegisterEmails] ==
                    IF S = {} THEN 0
                    ELSE LET e == CHOOSE x \in S : TRUE IN regs[e] + Sum[S \ {e}]
            IN  Sum[RegisterEmails]

\* existing_user = await db.users.find_one({"email": user_data.email})
register_find(email) ==
    /\ IF UserIndex(email) # 0
       THEN /\ resp' = Response("register_user", 400)
            /\ UNCHANGED regs
       ELSE /\ regs' = [regs EXCEPT ![email] = @ + 1]
            /\ UNCHANGED resp
    /\ UNCHANGED <<users, orders, pizzas, menu_items, now, updates, miles, services>>

\* a user document that takes is_admin from the request body
NewUser_TrustBody(user_data) ==
    [id |-> uuid4(users), email |-> user_data.email, is_admin |-> user_data.is_admin]

\* User(email=..., first_name=..., last_name=..., phone=...): id and is_admin are
\* left at their defaults, whatever else the body carried
NewUser(user_data) ==
    [id |-> uuid4(users), email |-> user_data.email, is_admin |-> FALSE]

\* await db.users.insert_one(user_doc); the body may carry an is_admin field,
\* which UserRegister does not declare
register_insert(email) ==
    /\ regs[email] > 0
    /\ regs' = [regs EXCEPT ![email] = @ - 1]
    /\ \E extra \in BOOLEAN :
           users' = Append(users, NewUser([email |-> email, is_admin |-> extra]))
    /\ resp' = Response("register_user", 200)
    /\ UNCHANGED <<orders, pizzas, menu_items, now, updates, miles, services>>

(***************************************************************************)
(* POST /api/auth/login                                                    *)
(***************************************************************************)
\* the emails a login is tried with
LoginEmails == {AdminEmail} \cup RegisterEmails

\* verified: verify_password(user_data.password, user["password"]), the request
\* carries the password the account was created with
login_user(email, verified) ==
    /\ IF UserIndex(email) = 0 \/ ~verified
       THEN resp' = Response("login_user", 401)
       ELSE resp' = Listing("login_user", 200, <<users[UserIndex(email)]>>)
    /\ UNCHANGED <<users, regs, orders, pizzas, menu_items, now, updates, miles, services>>

(***************************************************************************)
(* payment_service.py and email_service.py.  No route of server.py calls   *)
(* them: server.py imports neither module.  A call of a method is logged   *)
(* in calls with what it did.                                              *)
(***************************************************************************)
\* gateway: "none" when the call reached no external provider or SMTP server,
\* "ok" when it reached one and that succeeded, "failed" when that raised;
\* raised: the class of the exception the caller gets, or "none";
\* status: the status of the dict returned, "True" or "False" for a bool, or "none"
Outcome(fn, provider, order_id, amount, gateway, raised, status) ==
    [fn |-> fn, provider |-> provider, order_id |-> order_id, amount |-> amount,
     gateway |-> gateway, raised |-> raised, status |-> status]

\* PaymentProvider
PaymentProviders == {"stripe", "paypal", "square", "apple_pay", "google_pay", "cash"}

\* metadata: Dict = None, a dict without order_id, a dict with one
NoMetadata == "None"
Metadatas == {NoMetadata, "{}", "{order_id}"}

\* amounts in cents
Amounts == {0, 1514}

PaymentIds == {"pi_1"}

\* intent.status and refund.status, as Stripe reports them
StripeStatuses == {"requires_payment_method", "succeeded"}

\* the _enabled flag of a provider; apple_pay and google_pay have none
Configured(provider) ==
    CASE provider = "stripe" -> payment_service.stripe_enabled
      [] provider = "paypal" -> payment_service.paypal_enabled
      [] provider = "square" -> payment_service.square_enabled
      [] OTHER -> FALSE

\* the keys of the dict get_available_payment_methods returns; every entry of
\* it has "enabled": True
get_available_payment_methods ==
    {"cash"} \cup {p \in {"stripe", "paypal", "square"} : Configured(p)}
             \cup {"apple_pay", "google_pay"}

\* the outcomes of create_payment_intent: the cash branch reads metadata.get, the
\* Stripe branch re-raises what stripe.PaymentIntent.create raised, the PayPal and
\* Square branches return a placeholder
CreateOutcomes(amount, provider, metadata) ==
    LET Out(gateway, raised, status) ==
            Outcome("create_payment_intent", provider, None, amount, gateway, raised, status)
    IN  IF provider = "cash"
        THEN IF metadata = NoMetadata
             THEN {Out("none", "AttributeError", "none")}
             ELSE {Out("none", "none", "pending")}
        ELSE IF provider = "stripe" /\ Configured(provider)
        THEN {Out("ok", "none", st) : st \in StripeStatuses}
                 \cup {Out("failed", "Exception", "none")}
        ELSE IF provider \in {"paypal", "square"} /\ Configured(provider)
        THEN {Out("none", "none", "pending")}
        ELSE {Out("none", "ValueError", "none")}

create_payment_intent(amount, provider, metadata) ==
    /\ \E out \in CreateOutcomes(amount, provider, metadata) : calls' = Append(calls, out)
    /\ UNCHANGED <<db, miles, payment_service, email_service>>

\* the outcomes of confirm_payment: _confirm_stripe_payment returns a dict with
\* status failed when stripe.PaymentIntent.retrieve raised
ConfirmOutcomes(payment_id, provider) ==
    LET Out(gateway, status) ==
            Outcome("confirm_payment", provider, None, None, gateway, "none", status)
    IN  IF provider = "cash"
        THEN {Out("none", "completed")}
        ELSE IF provider = "stripe" /\ Configured(provider)
        THEN {Out("ok", st) : st \in StripeStatuses} \cup {Out("failed", "failed")}
        ELSE {Out("none", "pending")}

confirm_payment(payment_id, provider) ==
    /\ \E out \in ConfirmOutcomes(payment_id, provider) : calls' = Append(calls, out)
    /\ UNCHANGED <<db, miles, payment_service, email_service>>

\* the outcomes of process_refund: _process_stripe_refund returns a dict with
\* status failed when stripe.Refund.create raised
RefundOutcomes(payment_id, amount, provider) ==
    LET Out(gateway, status) ==
            Outcome("process_refund", provider, None, amount, gateway, "none", status)
    IN  IF provider = "cash"
        THEN {Out("none", "refunded")}
        ELSE IF provider = "stripe" /\ Configured(provider)
        THEN {Out("ok", st) : st \in StripeStatuses} \cup {Out("failed", "failed")}
        ELSE {Out("none", "pending")}

process_refund(payment_id, amount, provider) ==
    /\ \E out \in RefundOutcomes(payment_id, amount, provider) : calls' = Append(calls, out)
    /\ UNCHANGED <<db, miles, payment_service, email_service>>

\* the recipients of send_admin_notification
admin_emails ==
    {"admin@nypizzawoodstock.com", "kitchen@nypizzawoodstock.com",
     "manager@nypizzawoodstock.com"}

\* order_data by its id; None is a dict without the keys the templates read
OrderDatas == Ids(orders) \cup {uuid4(orders), None}

\* _send_email: False without credentials, else True, or False when the SMTP
\* exchange raised
SendResults == IF email_service.email_enabled THEN BOOLEAN ELSE {FALSE}

\* what the SMTP server did with the messages of a notification: "partial" when
\* some of them were sent and some raised
Delivery(results) ==
    LET sent == {r \in DOMAIN results : results[r]}
    IN  IF ~email_service.email_enabled THEN "none"
        ELSE IF sent = DOMAIN results THEN "ok"
        ELSE IF sent = {} THEN "failed"
        ELSE "partial"

\* a notification that reports success as soon as one message was sent
Notified_AnySuccess(fn, order_data, results) ==
    LET success == \E r \in DOMAIN results : results[r]
    IN  Outcome(fn, "smtp", order_data, None, Delivery(results), "none",
                IF success THEN "True" ELSE "False")

\* the log entry of a notification that sent to every recipient of results:
\* success starts True and a result that is False makes it False
Notified(fn, order_data, results) ==
    LET success == \A r \in DOMAIN results : results[r]
    IN  Outcome(fn, "smtp", order_data, None, Delivery(results), "none",
                IF success THEN "True" ELSE "False")

\* the outcomes of a send_ method: building the message raises on a dict without
\* the keys, the except clause returns False
MailOutcomes(fn, order_data, recipients) ==
    IF order_data = None
    THEN {Outcome(fn, "smtp", order_data, None, "none", "none", "False")}
    ELSE {Notified(fn, order_data, results) : results \in [recipients -> SendResults]}

send_order_confirmation(order_data, customer_email) ==
    /\ \E out \in MailOutcomes("send_order_confirmation", order_data, {customer_email}) :
           calls' = Append(calls, out)
    /\ UNCHANGED <<db, miles, payment_service, email_service>>

send_order_status_update(order_data, customer_email, new_status) ==
    /\ \E out \in MailOutcomes("send_order_status_update", order_data, {customer_email}) :
           calls' = Append(calls, out)
    /\ UNCHANGED <<db, miles, payment_service, email_service>>

send_admin_notification(order_data) ==
    /\ \E out \in MailOutcomes("send_admin_notification", order_data, admin_emails) :
           calls' = Append(calls, out)
    /\ UNCHANGED <<db, miles, payment_service, email_service>>

(***************************************************************************)
(* Specifications.                                                         *)
(***************************************************************************)
\* "shipped" stands for every string outside valid_statuses
StatusArgs == {"pending", "confirmed", "preparing", "ready", "delivered", "cancelled", "shipped"}

\* one valid and one unknown status
AdminStatusArgs == {"confirmed", "shipped"}

\* the ids of the persisted orders and an id no order has
OrderIdArgs == Ids(orders) \cup {uuid4(orders)}

\* the bound on the orders collection: a request that would be accepted waits
HasRoom(token) == Authenticated(token) => Len(orders) < MaxOrders

\* the bound on the users collection: a registration that would pass the lookup
\* waits
HasUserRoom(email) == UserIndex(email) = 0 => Len(users) + InFlight < MaxUsers

\* get_current_user rejects a request before the route reads its arguments: the
\* arguments of a request that is not authenticated are immaterial
ArgsOf(token, Args) ==
    IF Authenticated(token) THEN Args ELSE {CHOOSE a \in Args : TRUE}

\* The order lifecycle: customers register and place orders, the staff moves them.
Next ==
    \/ \E e \in RegisterEmails : HasUserRoom(e) /\ register_find(e)
    \/ \E e \in RegisterEmails : register_insert(e)
    \/ \E t \in Tokens : HasRoom(t) /\ \E b \in ArgsOf(t, BasicBodies) : create_order(t, b)
    \/ \E t \in Tokens : \E id \in ArgsOf(t, OrderIdArgs), s \in ArgsOf(t, StatusArgs) :
           update_order_status(t, id, s)

Spec == Init /\ [][Next]_vars

\* The admin routes, called by every kind of caller.
NextAdmin ==
    \/ \E e \in RegisterEmails : HasUserRoom(e) /\ register_find(e)
    \/ \E e \in RegisterEmails : register_insert(e)
    \/ \E t \in Tokens : HasRoom(t) /\ \E b \in ArgsOf(t, BasicBodies) : create_order(t, b)
    \/ \E t \in Tokens : \E id \in ArgsOf(t, OrderIdArgs), s \in ArgsOf(t, AdminStatusArgs) :
           update_order_status(t, id, s)
    \/ \E t \in Tokens : get_all_orders(t)
    \/ \E t \in Tokens : \E b \in ArgsOf(t, CatalogBodies) : create_pizza(t, b)
    \/ \E t \in Tokens : \E b \in ArgsOf(t, CatalogBodies) : create_menu_item(t, b)

SpecAdmin == Init /\ [][NextAdmin]_vars

\* Order placement with every request body of WideBodies.
NextPricing ==
    \E t \in Tokens : HasRoom(t) /\ \E b \in ArgsOf(t, WideBodies) : create_order(t, b)

SpecPricing == Init /\ [][NextPricing]_vars

\* Order placement at every distance the fee schedule distinguishes: the local
\* variable distance of calculate_delivery_fee, 3 in the source, is drawn from
\* 0..MaxMiles.
InitQuote ==
    /\ InitDb
    /\ miles \in 0..MaxMiles
    /\ payment_service = PlaceholderPayment
    /\ email_service = PlaceholderEmail
    /\ calls = << >>

NextQuote ==
    \/ \E e \in RegisterEmails : HasUserRoom(e) /\ register_find(e)
    \/ \E e \in RegisterEmails : register_insert(e)
    \/ \E t \in Tokens : HasRoom(t) /\ \E b \in ArgsOf(t, QuoteBodies) : create_order(t, b)

SpecQuote == InitQuote /\ [][NextQuote]_vars

\* a copy of an id needs an order to copy it from: one order more than MaxOrders
HasRoomForCopy(token) == Authenticated(token) => Len(orders) < MaxOrders + 1

\* Order placement with bodies that carry an id.
NextIds ==
    \/ \E e \in RegisterEmails : HasUserRoom(e) /\ register_find(e)
    \/ \E e \in RegisterEmails : register_insert(e)
    \/ \E t \in Tokens :
           HasRoomForCopy(t) /\ \E b \in ArgsOf(t, IdBodies) : create_order(t, b)

SpecIds == Init /\ [][NextIds]_vars

\* The methods of the two services, in every configuration of their credentials.
InitServices ==
    /\ InitDb
    /\ miles = distance
    /\ payment_service \in
           [stripe_enabled : BOOLEAN, paypal_enabled : BOOLEAN, square_enabled : BOOLEAN]
    /\ email_service \in [email_enabled : BOOLEAN]
    /\ calls = << >>

HasCallRoom == Len(calls) < MaxCalls

NextServices ==
    \/ HasCallRoom /\ \E a \in Amounts, p \in PaymentProviders, m \in Metadatas :
           create_payment_intent(a, p, m)
    \/ HasCallRoom /\ \E id \in PaymentIds, p \in PaymentProviders : confirm_payment(id, p)
    \/ HasCallRoom /\ \E id \in PaymentIds, a \in Amounts, p \in PaymentProviders :
           process_refund(id, a, p)
    \/ HasCallRoom /\ \E o \in OrderDatas, e \in RegisterEmails :
           send_order_confirmation(o, e)
    \/ HasCallRoom /\ \E o \in OrderDatas, e \in RegisterEmails, s \in AdminStatusArgs :
           send_order_status_update(o, e, s)
    \/ HasCallRoom /\ \E o \in OrderDatas : send_admin_notification(o)

SpecServices == InitServices /\ [][NextServices]_vars

\* two valid statuses and an unknown one
RaceStatusArgs == {"confirmed", "preparing", "shipped"}

\* the requests in flight
InFlightUpdates == BagToSet(updates)

HasUpdateRoom(token, status) ==
    (Authenticated(token) /\ current_user(token).is_admin /\ status \in valid_statuses)
        => BagCardinality(updates) < MaxUpdates

\* Concurrent requests of the staff.
NextRace ==
    \/ \E t \in Tokens : HasRoom(t) /\ \E b \in ArgsOf(t, BasicBodies) : create_order(t, b)
    \/ \E t \in Tokens : \E id \in ArgsOf(t, OrderIdArgs), s \in ArgsOf(t, RaceStatusArgs) :
           HasUpdateRoom(t, s) /\ update_begin(t, id, s)
    \/ \E req \in InFlightUpdates : update_write(req)
    \/ \E req \in InFlightUpdates : update_respond(req)

SpecRace == Init /\ [][NextRace]_vars

\* Status updates over two orders, with ids the clients chose or copied.
NextFrame ==
    \/ \E t \in Tokens :
           HasRoomForCopy(t) /\ \E b \in ArgsOf(t, IdBodies) : create_order(t, b)
    \/ \E t \in Tokens : \E id \in ArgsOf(t, OrderIdArgs), s \in ArgsOf(t, AdminStatusArgs) :
           update_order_status(t, id, s)

SpecFrame == Init /\ [][NextFrame]_vars

\* two registrations in flight need room for one user more than MaxUsers
HasRoomForRace(email) == UserIndex(email) = 0 => Len(users) + InFlight < MaxUsers + 1

\* The accounts: concurrent registrations, logins, and the calls an account can
\* make once it has a token.
NextAccounts ==
    \/ \E e \in RegisterEmails : HasRoomForRace(e) /\ register_find(e)
    \/ \E e \in RegisterEmails : register_insert(e)
    \/ \E e \in LoginEmails, v \in BOOLEAN : login_user(e, v)
    \/ \E t \in Tokens : HasRoom(t) /\ \E b \in ArgsOf(t, BasicBodies) : create_order(t, b)
    \/ \E t \in Tokens : \E id \in ArgsOf(t, OrderIdArgs), s \in ArgsOf(t, AdminStatusArgs) :
           update_order_status(t, id, s)
    \/ \E t \in Tokens : get_all_orders(t)

SpecAccounts == Init /\ [][NextAccounts]_vars

\* Two customers place orders and read them back.
NextReads ==
    \/ \E e \in RegisterEmails : HasUserRoom(e) /\ register_find(e)
    \/ \E e \in RegisterEmails : register_insert(e)
    \/ \E t \in Tokens :
           HasRoomForCopy(t) /\ \E b \in ArgsOf(t, BasicBodies) : create_order(t, b)
    \/ \E t \in Tokens : get_user_orders(t)
    \/ \E t \in Tokens : \E id \in ArgsOf(t, OrderIdArgs) : get_order(t, id)

SpecReads == Init /\ [][NextReads]_vars

\* The catalog: the admin adds documents, anyone lists the menu.
NextMenu ==
    \/ \E e \in RegisterEmails : HasUserRoom(e) /\ register_find(e)
    \/ \E e \in RegisterEmails : register_insert(e)
    \/ \E e \in LoginEmails, v \in BOOLEAN : login_user(e, v)
    \/ \E t \in Tokens : \E b \in ArgsOf(t, CatalogBodies) : create_pizza(t, b)
    \/ \E t \in Tokens : \E b \in ArgsOf(t, CatalogBodies) : create_menu_item(t, b)
    \/ get_pizzas
    \/ get_menu_items

SpecMenu == Init /\ [][NextMenu]_vars

(***************************************************************************)
(* Properties of order placement, checked under SpecPricing.               *)
(***************************************************************************)
\* the sum of price x quantity over the lines of a cart
RECURSIVE CartTotal(_)
CartTotal(items) ==
    IF items = << >> THEN 0
    ELSE Head(items).price * Head(items).quantity + CartTotal(Tail(items))

Persisted == {orders[i] : i \in 1..Len(orders)}

\* C1: every persisted order's subtotal is the sum of price x quantity over its
\* items, whatever subtotal the request carried.
C1_SubtotalIsSumOfLines == \A o \in Persisted : o.subtotal = CartTotal(o.items)

\* C2: on every persisted order, total = subtotal + delivery_fee + tax, in cents.
C2_TotalIsSum == \A o \in Persisted : o.total = o.subtotal + o.delivery_fee + o.tax

\* a delivery order is stored with a fee, a tax and a total that the request did not carry
C2_Witness ==
    \E o \in Persisted :
        /\ o.order_type = "delivery"
        /\ o.delivery_fee = 400 /\ o.tax = 119 /\ o.total = 1914

\* C3: every persisted pickup order has delivery_fee = 0, whatever the request carried.
C3_PickupFeeIsZero == \A o \in Persisted : o.order_type = "pickup" => o.delivery_fee = 0

\* C4: a persisted order has a delivery_address if and only if its order_type is
\* delivery (a delivery request without an address persists nothing, and no pickup
\* order is stored with an address).
C4_AddressIffDelivery ==
    \A o \in Persisted : (o.delivery_address # NoAddress) <=> (o.order_type = "delivery")

\* C6: the order that create_order persists is in status pending at that moment,
\* whatever status the request body carried.
C6_CreatedPending ==
    [][Len(orders') > Len(orders) => orders'[Len(orders')].status = "pending"]_vars

ValidCart(items) ==
    /\ items # << >>
    /\ \A k \in 1..Len(items) : items[k].quantity >= 1 /\ items[k].price >= 0

\* C10: no order is persisted for a request whose items list is empty or holds an
\* item with quantity < 1 or price < 0 (such a request is rejected).
C10_InvalidCartRejected == \A o \in Persisted : ValidCart(o.items)

(***************************************************************************)
(* Properties of the order lifecycle, checked under Spec.                  *)
(***************************************************************************)
LifecycleStatuses == {"pending", "confirmed", "preparing", "ready", "delivered", "cancelled"}

TerminalStatuses == {"delivered", "cancelled"}

StatusRank(s) ==
    CASE s = "pending" -> 0
      [] s = "confirmed" -> 1
      [] s = "preparing" -> 2
      [] s = "ready" -> 3
      [] s = "delivered" -> 4
      [] OTHER -> 5

\* a move of the lifecycle graph: forward along the chain, or to cancelled,
\* from a status that is not terminal
ForwardMove(a, b) ==
    \/ a = b
    \/ /\ a \notin TerminalStatuses
       /\ \/ b = "cancelled"
          \/ b # "cancelled" /\ StatusRank(a) < StatusRank(b)

\* C5: an order's status only moves forward along pending -> confirmed -> preparing
\* -> ready -> delivered, or to cancelled from a non-terminal status; it never moves
\* back, and a delivered or cancelled order never changes again.
C5_StatusOnlyForward ==
    [][\A i \in 1..Len(orders) : ForwardMove(orders[i].status, orders'[i].status)]_vars

IsAdmin(t) == Authenticated(t) /\ current_user(t).is_admin

UnknownStatuses == StatusArgs \ LifecycleStatuses

\* C7 as stated: update_order_status with a status outside the six lifecycle
\* statuses answers 400 and leaves every order as it was.
C7_UnknownStatusIs400 ==
    [][\A t \in Tokens : Authenticated(t) =>
          \A id \in OrderIdArgs, s \in UnknownStatuses :
              update_order_status(t, id, s) => (resp'.code = 400 /\ orders' = orders)]_vars

\* C7 as amended: called by an admin, update_order_status with a status outside the
\* six lifecycle statuses answers 400; called by a user who is not an admin it
\* answers 403; in both cases every order is left as it was.
C7_UnknownStatusRejected ==
    [][\A t \in Tokens : Authenticated(t) =>
          \A id \in OrderIdArgs, s \in UnknownStatuses :
              update_order_status(t, id, s)
                  => /\ resp'.code = (IF IsAdmin(t) THEN 400 ELSE 403)
                     /\ orders' = orders]_vars

\* an admin's request with an unknown status was answered 400 while orders exist
C7_Witness ==
    /\ resp.op = "update_order_status" /\ resp.code = 400
    /\ resp.order_id \in Ids(orders)

\* C8: update_order_status called by an admin with a valid status and an order id
\* that no persisted order has answers 404 and changes no order.
C8_MissingOrderIs404 ==
    [][\A t \in Tokens : IsAdmin(t) =>
          \A id \in OrderIdArgs : id \notin Ids(orders) =>
              \A s \in LifecycleStatuses :
                  update_order_status(t, id, s) => (resp'.code = 404 /\ orders' = orders)]_vars

\* an admin's request for an id that none of the persisted orders has was answered 404
C8_Witness ==
    /\ resp.op = "update_order_status" /\ resp.code = 404
    /\ Len(orders) > 0
    /\ resp.order_id \notin Ids(orders)

(***************************************************************************)
(* Properties of the admin routes, checked under SpecAdmin.                *)
(***************************************************************************)
StatusChanged == \E i \in 1..Len(orders) : orders'[i].status # orders[i].status

\* C9: a call of an admin route (list all orders, update status, create pizza,
\* create menu item) by an authenticated user who is not an admin answers 403 and
\* leaves orders, pizzas and menu items unchanged; an order's status and the
\* catalog change only in a step of an admin.
C9_AdminOnly ==
    [][/\ \A t \in Tokens : (Authenticated(t) /\ ~current_user(t).is_admin) =>
            LET Rejected == /\ resp'.code = 403
                            /\ orders' = orders
                            /\ pizzas' = pizzas
                            /\ menu_items' = menu_items
            IN  /\ \A id \in OrderIdArgs, s \in AdminStatusArgs :
                       update_order_status(t, id, s) => Rejected
                /\ get_all_orders(t) => Rejected
                /\ \A b \in CatalogBodies : create_pizza(t, b) => Rejected
                /\ \A b \in CatalogBodies : create_menu_item(t, b) => Rejected
       /\ StatusChanged
            => \E t \in Tokens, id \in OrderIdArgs, s \in AdminStatusArgs :
                  IsAdmin(t) /\ update_order_status(t, id, s)
       /\ pizzas' # pizzas
            => \E t \in Tokens, b \in CatalogBodies : IsAdmin(t) /\ create_pizza(t, b)
       /\ menu_items' # menu_items
            => \E t \in Tokens, b \in CatalogBodies : IsAdmin(t) /\ create_menu_item(t, b)
      ]_vars

\* a user who is not an admin called an admin route while an order is persisted
C9_Witness ==
    /\ resp.code = 403
    /\ resp.op \in {"update_order_status", "create_pizza", "create_menu_item", "get_all_orders"}
    /\ Len(orders) > 0

(***************************************************************************)
(* Tax and the estimate of create_order, checked under SpecPricing.        *)
(***************************************************************************)
\* tax (cents) is a cent amount nearest to subtotal x 0.085
IsNearestCent(tax, subtotal) ==
    LET d == 1000 * tax - 85 * subtotal IN d >= -500 /\ d <= 500

\* C11: on every persisted order, tax is subtotal x 0.085 rounded to cents, whatever
\* delivery fee and tax the request carried; a pickup order with subtotal 13.95 is
\* stored with tax 1.19 and total 15.14.
C11_TaxAndPickupTotal ==
    \A o \in Persisted :
        /\ IsNearestCent(o.tax, o.subtotal)
        /\ (o.order_type = "pickup" /\ o.subtotal = 1395)
               => (o.tax = 119 /\ o.total = 1514)

\* C14: a persisted delivery order has estimated_delivery = created_at + 45 minutes,
\* a persisted pickup order created_at + 25 minutes, and no order of another
\* order_type is persisted with an estimate.
C14_EstimateByType ==
    \A o \in Persisted :
        /\ o.order_type = "delivery" => o.estimated_delivery = o.created_at + 45
        /\ o.order_type = "pickup" => o.estimated_delivery = o.created_at + 25
        /\ o.order_type \notin {"delivery", "pickup"} => o.estimated_delivery = None

(***************************************************************************)
(* Properties of the delivery fee, checked under SpecQuote.                *)
(***************************************************************************)
\* C12: the eligibility computation maps a distance d <= 5 miles to fee 4.00 and
\* eligible, 5 < d <= 9 miles to fee 4.00 + 2.00 x (d - 5) and eligible (8.00 at 7
\* miles), and d > 9 miles to fee 0 and not eligible.
C12_FeeSchedule ==
    \A a \in Addresses :
        LET q == calculate_delivery_fee(a)
        IN  /\ miles <= 5 => (q.fee = 400 /\ q.can_deliver)
            /\ (miles > 5 /\ miles <= 9)
                   => (q.fee = 400 + 200 * (miles - 5) /\ q.can_deliver)
            /\ miles = 7 => q.fee = 800
            /\ miles > 9 => (q.fee = 0 /\ ~q.can_deliver)

\* at 7 miles a delivery order was persisted with the fee of the schedule
C12_Witness ==
    /\ miles = 7
    /\ \E o \in Persisted : o.order_type = "delivery" /\ o.delivery_fee = 800

\* C13: when the eligibility computation reports the address of a delivery request
\* as not eligible, create_order answers 400 and persists no order.
C13_IneligibleRejected ==
    [][\A t \in Tokens : Authenticated(t) =>
          \A b \in QuoteBodies :
              ( /\ b.order_type = "delivery"
                /\ b.delivery_address # NoAddress
                /\ ~calculate_delivery_fee(b.delivery_address).can_deliver )
                  => (create_order(t, b) => (resp'.code = 400 /\ orders' = orders))]_vars

\* beyond max_distance a request to create_order was answered 400
C13_Witness ==
    /\ miles > max_distance
    /\ resp.op = "create_order" /\ resp.code = 400
    /\ orders = << >>

(***************************************************************************)
(* Properties of the notifications, checked under Spec.                    *)
(***************************************************************************)
\* the calls logged in this step
NewCalls == {calls'[k] : k \in (Len(calls) + 1)..Len(calls')}

\* C15: a successful update_order_status persists the new status and invokes the
\* status-update notification for that order.
C15_StatusUpdateNotified ==
    [][\A t \in Tokens : IsAdmin(t) =>
          \A id \in Ids(orders), s \in LifecycleStatuses :
              (update_order_status(t, id, s) /\ resp'.code = 200)
                  => /\ \E i \in 1..Len(orders') :
                            orders'[i].id = id /\ orders'[i].status = s
                     /\ \E c \in NewCalls :
                            c.fn = "send_order_status_update" /\ c.order_id = id]_vars

\* C16: a successful create_order persists the order and invokes the customer's
\* order confirmation and the staff's new-order notification for it.
C16_OrderNotified ==
    [][\A t \in Tokens : Authenticated(t) =>
          \A b \in BasicBodies :
              (create_order(t, b) /\ resp'.code = 200)
                  => /\ Len(orders') = Len(orders) + 1
                     /\ \A fn \in {"send_order_confirmation", "send_admin_notification"} :
                            \E c \in NewCalls :
                                c.fn = fn /\ c.order_id = orders'[Len(orders')].id]_vars

(***************************************************************************)
(* Properties of the payment service, checked under SpecServices.          *)
(***************************************************************************)
Logged == {calls[k] : k \in 1..Len(calls)}

\* C17: create_payment_intent for provider cash returns, for every amount and with
\* or without metadata, an intent of status completed; it calls no external
\* provider and raises nothing.
C17_CashIntentCompleted ==
    \A c \in Logged :
        (c.fn = "create_payment_intent" /\ c.provider = "cash")
            => (c.raised = "none" /\ c.status = "completed" /\ c.gateway = "none")

PaymentMethods == {"create_payment_intent", "confirm_payment", "process_refund"}

\* C18: create_payment_intent, confirm_payment and process_refund for a provider
\* other than cash raise when the gateway fails, and return a result only when
\* the provider is configured and its call succeeded.
C18_GatewayFailureRaises ==
    \A c \in Logged :
        (c.fn \in PaymentMethods /\ c.provider # "cash")
            => /\ c.gateway = "failed" => c.raised # "none"
               /\ c.raised = "none" => (Configured(c.provider) /\ c.gateway = "ok")

(***************************************************************************)
(* Properties of the identity of orders.                                   *)
(***************************************************************************)
\* C19: no two persisted orders have the same id, whatever ids the request bodies
\* carried.  Checked under SpecIds.
C19_OrderIdsUnique ==
    \A i, j \in 1..Len(orders) : orders[i].id = orders[j].id => i = j

\* C20: the order create_order persists has the user_id of the authenticated
\* caller, and a request that differs only in the user_id of its body leads to the
\* same state.  Checked under Spec.
C20_UserIdIsCaller ==
    [][Len(orders') > Len(orders) =>
          \A t \in Tokens : Authenticated(t) =>
              \A b \in BasicBodies :
                  create_order(t, b)
                      => /\ orders'[Len(orders')].user_id = current_user(t).id
                         /\ \A u \in ClientIds \cup Ids(users) :
                                create_order(t, [b EXCEPT !.user_id = u])]_vars

\* the registered user placed an order: every user_id a body of BasicBodies
\* carries is another one, or the one of another body of the same step
C20_Witness ==
    /\ resp.op = "create_order" /\ resp.code = 200
    /\ \E o \in Persisted, i \in 1..Len(users) :
           o.user_id = users[i].id /\ ~users[i].is_admin

(***************************************************************************)
(* Properties of the menu, checked under SpecMenu.                         *)
(***************************************************************************)
\* the ids of the documents of a sequence
DocIds(docs) == {docs[i].id : i \in 1..Len(docs)}

AvailableIds(coll) == {coll[i].id : i \in {k \in 1..Len(coll) : coll[k].is_available}}

\* C21: GET /api/menu/pizzas and GET /api/menu/items return every catalog item
\* whose is_available is true and none whose is_available is false: at least the
\* 18 seeded pizzas and every seeded menu item.
C21_MenuListsAllAvailable ==
    /\ resp.op = "get_pizzas"
           => /\ DocIds(resp.body) = AvailableIds(db_pizzas)
              /\ Len(resp.body) >= SeedPizzas
    /\ resp.op = "get_menu_items"
           => /\ DocIds(resp.body) = AvailableIds(db_menu_items)
              /\ Len(resp.body) >= SeedMenuItems

(***************************************************************************)
(* Properties of concurrent status updates, checked under SpecRace.        *)
(***************************************************************************)
\* the positions of the orders whose status this step changed
StatusWritten == {i \in 1..Len(orders) : orders'[i].status # orders[i].status}

\* C22: concurrent update_order_status requests for an order each perform one
\* atomic write to it: the write of a request stores that request's target, so
\* that the status left by several requests is the target of the one that wrote
\* last, and nothing but the write of a request changes a status.
C22_LastWriteWins ==
    [][/\ \A req \in InFlightUpdates :
              /\ update_write(req)
                     => \A i \in 1..Len(orders) :
                            orders[i].id = req.order_id => orders'[i].status = req.status
              /\ update_respond(req) => orders' = orders
       /\ StatusWritten # {}
              => \E req \in InFlightUpdates :
                     /\ update_write(req)
                     /\ \A i \in StatusWritten : orders'[i].status = req.status]_vars

\* two requests for the same order with different targets were in flight together
\* and both have written
C22_Witness ==
    \E r1, r2 \in InFlightUpdates :
        /\ r1.order_id = r2.order_id /\ r1.status # r2.status
        /\ r1.modified_count = 1 /\ r2.modified_count = 1
        /\ \E o \in Persisted : o.id = r1.order_id /\ o.status \in {r1.status, r2.status}

(***************************************************************************)
(* Properties of a status update, checked under SpecFrame.                 *)
(***************************************************************************)
\* C23: update_order_status changes only the status field of the order whose id
\* matches: the other fields of that order and every other order are unchanged.
C23_UpdateChangesOnlyStatus ==
    [][resp'.op = "update_order_status" =>
          \A t \in Tokens, id \in OrderIdArgs, s \in AdminStatusArgs :
              update_order_status(t, id, s)
                  => /\ Len(orders') = Len(orders)
                     /\ \A i \in 1..Len(orders) :
                            orders'[i] # orders[i]
                                => /\ orders[i].id = id
                                   /\ orders'[i] = [orders[i] EXCEPT !.status = s]
                     /\ Cardinality({i \in 1..Len(orders) : orders'[i] # orders[i]}) <= 1]_vars

\* of two orders, an update moved one and left the other as it was placed
C23_Witness ==
    /\ resp.op = "update_order_status" /\ resp.code = 200
    /\ Len(orders) = 2
    /\ \E i, j \in 1..2 :
           /\ orders[i].id = resp.order_id /\ orders[i].status = "confirmed"
           /\ i # j /\ orders[j].status = "pending"
           /\ orders[i].estimated_delivery = now + pickup_minutes

\* C25: update_order_status by an admin with a valid status and the id of an
\* existing order succeeds, also when the target is the order's current status;
\* it answers 404 only when no order has that id.
C25_ExistingOrderUpdated ==
    [][resp'.op = "update_order_status" =>
          \A t \in Tokens : IsAdmin(t) =>
              \A id \in OrderIdArgs, s \in AdminStatusArgs \cap valid_statuses :
                  update_order_status(t, id, s)
                      => /\ id \in Ids(orders) => resp'.code = 200
                         /\ resp'.code = 404 => id \notin Ids(orders)]_vars

(***************************************************************************)
(* Properties of the email service, checked under SpecServices.            *)
(***************************************************************************)
MailMethods ==
    {"send_order_confirmation", "send_order_status_update", "send_admin_notification"}

\* C24: send_order_confirmation, send_order_status_update and
\* send_admin_notification return a boolean and raise nothing, with or without
\* credentials and whether or not the SMTP exchange fails; they return True only
\* if every message was sent, send_admin_notification to each staff address.
C24_MailReturnsBoolean ==
    \A c \in Logged :
        c.fn \in MailMethods
            => /\ c.raised = "none"
               /\ c.status \in {"True", "False"}
               /\ c.status = "True" => c.gateway = "ok"
               /\ c.gateway \in {"none", "failed", "partial"} => c.status = "False"

\* with credentials, the notification of the staff reached some of the addresses
\* and failed for the others
C24_Witness ==
    \E c \in Logged :
        /\ c.fn = "send_admin_notification"
        /\ email_service.email_enabled
        /\ c.gateway = "partial" /\ c.status = "False" /\ c.raised = "none"

\* C28: every payment method get_available_payment_methods reports as enabled is
\* accepted by create_payment_intent: the call for that provider does not raise
\* "not available or not configured".
C28_EnabledMethodAccepted ==
    \A c \in Logged :
        (c.fn = "create_payment_intent" /\ c.provider \in get_available_payment_methods)
            => c.raised # "ValueError"

(***************************************************************************)
(* Properties of the delivery fee as the source computes it (a distance of *)
(* 3 miles), checked under SpecPricing.                                    *)
(***************************************************************************)
\* C27: every persisted delivery order with an address has the base fee of 4.00
\* whatever the address, and no request to create_order is rejected as outside
\* the delivery area.
C27_FeeIsBaseFee ==
    /\ \A o \in Persisted :
           (o.order_type = "delivery" /\ o.delivery_address # NoAddress)
               => o.delivery_fee = base_fee
    /\ resp.op = "create_order" => resp.code # 400

\* a delivery to the far address was accepted at the base fee
C27_Witness ==
    /\ resp.op = "create_order" /\ resp.code = 200
    /\ \E o \in Persisted :
           /\ o.order_type = "delivery" /\ o.delivery_address = FarAddress
           /\ o.delivery_fee = base_fee

(***************************************************************************)
(* Properties of the accounts, checked under SpecAccounts.                 *)
(***************************************************************************)
\* C26: after any interleaving of concurrent register_user requests at most one
\* user document exists per email address.
C26_OneUserPerEmail ==
    \A i, j \in 1..Len(users) : users[i].email = users[j].email => i = j

\* C29: no sequence of register, login, order and admin calls makes a registered
\* user an admin: is_admin is true for the account seeded at startup and for no
\* other, in the collection and in what a login returns.
C29_OnlySeededAdmin ==
    /\ \A i \in 1..Len(users) :
           users[i].is_admin <=> (i = 1 /\ users[i].email = AdminEmail)
    /\ (resp.op = "login_user" /\ resp.code = 200)
           => (resp.body[1].is_admin <=> resp.body[1].email = AdminEmail)

\* a registered user has logged in and is not an admin
C29_Witness ==
    /\ resp.op = "login_user" /\ resp.code = 200
    /\ resp.body[1].email \in RegisterEmails
    /\ ~resp.body[1].is_admin
    /\ \E i \in 2..Len(users) : users[i] = resp.body[1]

(***************************************************************************)
(* Properties of the reads of orders, checked under SpecReads.             *)
(***************************************************************************)
\* the collections that differ from orders in the orders of other users only:
\* any of them removed
WithoutOthers(user_id) ==
    {LET Kept(doc) == doc.user_id = user_id \/ doc.id \in keep IN SelectSeq(orders, Kept) :
         keep \in SUBSET Ids(orders)}

\* the documents of the response of this step
Shown == {resp'.body[k] : k \in DOMAIN resp'.body}

\* C30: get_order and get_user_orders return only orders whose user_id is the
\* caller's id, the id of an order of another user gets 404, and what a user is
\* shown is the same whichever orders other users have placed.
C30_OnlyOwnOrders ==
    [][resp'.op \in {"get_order", "get_user_orders"} =>
          \A t \in Tokens : Authenticated(t) =>
              LET me == current_user(t).id
              IN  /\ get_user_orders(t)
                         => /\ \A o \in Shown : o.user_id = me
                            /\ \A coll \in WithoutOthers(me) :
                                   resp'.body = user_orders(coll, me)
                  /\ \A id \in OrderIdArgs :
                         get_order(t, id)
                             => /\ resp'.code = 200 => \A o \in Shown : o.user_id = me
                                /\ (\A o \in Persisted : o.id = id => o.user_id # me)
                                       => resp'.code = 404
                                /\ \A coll \in WithoutOthers(me) :
                                       (find_one(coll, id, me) = 0) <=> (resp'.code = 404)]_vars

\* two users have an order each and one of them asked for the order of the other
C30_Witness ==
    /\ resp.op = "get_order" /\ resp.code = 404
    /\ resp.order_id \in Ids(orders)
    /\ \E o1, o2 \in Persisted : o1.user_id # o2.user_id

====
